---------------------------- MODULE Spec2Model ----------------------------
(***************************************************************************)
(* Model of the data-world crate (src/src/lib.rs): a DataWorlds resource   *)
(* holding a static (immutable) world and a dynamic (mutable) world, the   *)
(* DataRef tagged reference, the accessors get / entity / get_mut /        *)
(* entity_mut, the copy-on-write transfer, reload and serialisation.       *)
(*                                                                         *)
(* A World is [entities, registry, components, meta, pending]: `entities`  *)
(* maps each live entity id to its component map (component type ->        *)
(* value), `registry` is the AppTypeRegistry resource of the world (None   *)
(* when the resource has been removed).  An entity id is an index and a    *)
(* generation (0v1, 1v1, ...): a fresh World hands out 0v1, 1v1, 2v1, ...  *)
(* and a despawned index is handed out again with the next generation.     *)
(***************************************************************************)
EXTENDS Integers, Sequences, FiniteSets, TLC

\* Bounds of the model.
MaxStatic == 2      \* spawns and despawns the static world goes through
MaxDynamic == 2     \* entities the dynamic world may hold

None == <<>>
Some(x) == <<x>>
IsSome(o) == o # <<>>
Unwrap(o) == o[1]

\* Component types stored in the worlds: the two components of the test
\* module and the bundle a scene is spawned as.
ComponentTypes == {"SomeCompoennt", "SomeRef", "DynamicSceneBundle"}

\* Scenes handed to from_scenes / reload_dynamic_data.
Scenes == {"sceneA"}

\* struct Entity { index, generation }, shown as <index>v<generation>.
EntityId(i, g) == [index |-> i, generation |-> g]

\* Entity ids a caller may name: every index a tier can use, in every
\* generation it can reach (the dynamic world never despawns: generation 1).
StaticIds == {e \in {EntityId(i, g) : i \in 0 .. (MaxStatic - 1), g \in 1 .. MaxStatic} :
                e.index + e.generation <= MaxStatic}

DynamicIds == {EntityId(i, 1) : i \in 0 .. (MaxDynamic - 1)}

EntityIds == StaticIds \cup DynamicIds

\* enum DataRef { Null, Static(Entity), Dynamic(Entity) }
Null == [tag |-> "Null"]
Static(e) == [tag |-> "Static", entity |-> e]
Dynamic(e) == [tag |-> "Dynamic", entity |-> e]
DataRef == {Null} \cup {Static(e) : e \in StaticIds} \cup {Dynamic(e) : e \in DynamicIds}

\* Values of the test components.
SomeCompoennt(d) == [data |-> d]
SomeRef(r) == [entity |-> r]

\* i32 values used at setup and written through a mutable view.
SetupData == {42}
WriteData == {99}


\* ------------------------------------------------------------------------
\* The entity-component container (bevy_ecs World), as far as the crate
\* uses it.  `components` lists the component types the world knows, in the
\* order it met them (their ComponentId order).  `meta` holds the current
\* generation of every index handed out so far (meta[i + 1] for index i) and
\* `pending` the freed indices, the last freed first to be reused.  A bundle
\* is a sequence of <<component type, value>> pairs.

\* World::new(): no entities, no resources, no component types.
WorldNew == [entities |-> <<>>, registry |-> None, components |-> <<>>,
             meta |-> <<>>, pending |-> <<>>]

\* World::insert_resource(AppTypeRegistry)
InsertRegistry(world, reg) == [world EXCEPT !.registry = Some(reg)]

Range(seq) == {seq[i] : i \in DOMAIN seq}

\* World::init_component: a type met for the first time gets the next id.
RECURSIVE InitComponents(_, _)
InitComponents(components, types) ==
    IF types = <<>> THEN components
    ELSE InitComponents(IF Head(types) \in Range(components) THEN components
                        ELSE Append(components, Head(types)),
                        Tail(types))

BundleTypes(bundle) == [i \in DOMAIN bundle |-> bundle[i][1]]

\* The component map an entity gets from a bundle.
BundleMap(bundle) ==
    [t \in Range(BundleTypes(bundle)) |->
        bundle[CHOOSE i \in DOMAIN bundle : bundle[i][1] = t][2]]

\* The id the allocator of `world` hands out next: the index freed last in
\* its current generation, or else a new index in generation 1.
NextId(world) ==
    IF world.pending # <<>>
    THEN LET i == world.pending[Len(world.pending)]
         IN EntityId(i, world.meta[i + 1])
    ELSE EntityId(Len(world.meta), 1)

\* World::spawn(bundle) / World::spawn_empty(): a new entity holding `bundle`.
Spawn(world, bundle) ==
    [world EXCEPT !.entities = world.entities @@ (NextId(world) :> BundleMap(bundle)),
                  !.components = InitComponents(world.components, BundleTypes(bundle)),
                  !.meta = IF world.pending # <<>> THEN @ ELSE Append(@, 1),
                  !.pending = IF @ # <<>> THEN SubSeq(@, 1, Len(@) - 1) ELSE @]

\* World::despawn(e): a live entity goes, its index moves to the next
\* generation and becomes free; a dead id changes nothing.
Despawn(world, e) ==
    IF e \notin DOMAIN world.entities THEN world
    ELSE [world EXCEPT !.entities = [x \in DOMAIN world.entities \ {e} |-> world.entities[x]],
                       !.meta[e.index + 1] = @ + 1,
                       !.pending = Append(@, e.index)]

\* World::get_entity(e): Some(view) when e is alive in the world.  A view is
\* the entity's id; what it shows is the world's current component map.
GetEntity(world, e) == IF e \in DOMAIN world.entities THEN Some(e) ELSE None

\* EntityRef::archetype().components(): the attached component types, in
\* ComponentId order.
ArchetypeComponents(world, e) ==
    SelectSeq(world.components, LAMBDA t : t \in DOMAIN world.entities[e])

\* A DynamicSceneBundle spawned into a world is one entity carrying the bundle.
SceneBundle(scene) == << <<"DynamicSceneBundle", scene>> >>

\* The type registry with every stored component registered together with
\* its ReflectComponent data (#[reflect(Component)]): type -> has copy data.
FullRegistry == [t \in ComponentTypes |-> TRUE]

\* ReflectComponent::copy: insert the source entity's component of type t
\* into the destination entity.
ReflectCopy(source_world, destination_world, source_entity, destination_entity, t) ==
    [destination_world EXCEPT
        !.entities[destination_entity] =
            (t :> source_world.entities[source_entity][t]) @@ @,
        !.components = InitComponents(@, <<t>>)]

\* ------------------------------------------------------------------------
\* struct DataWorlds { static_world, dynamic_world }

DataWorlds(sw, dw) == [static_world |-> sw, dynamic_world |-> dw]

\* DataWorlds::from_scenes(type_registry, static_scene, dynamic_scene)
from_scenes(type_registry, static_scene, dynamic_scene) ==
    LET sw0 == InsertRegistry(WorldNew, type_registry)
        sw1 == IF IsSome(static_scene)
               THEN Spawn(sw0, SceneBundle(Unwrap(static_scene))) ELSE sw0
        dw0 == InsertRegistry(WorldNew, type_registry)
        dw1 == IF IsSome(dynamic_scene)
               THEN Spawn(dw0, SceneBundle(Unwrap(dynamic_scene))) ELSE dw0
    IN DataWorlds(sw1, dw1)

\* The one-shot systems handed to modify_static_data: setup_data of the
\* test module, the spawn of a single bundle, the despawn of an entity.
SetupSystems == {[name |-> "setup_data"]}
                \cup {[name |-> "spawn", bundle |-> << <<"SomeCompoennt", SomeCompoennt(d)>> >>] : d \in SetupData}
                \cup {[name |-> "spawn", bundle |-> <<>>]}
                \cup {[name |-> "despawn", entity |-> e] : e \in StaticIds}

\* A system that takes the AppTypeRegistry resource out of the world.
RegistrySystems == {[name |-> "remove_registry"]}

\* Entities despawned out of a world so far, from its generations.
RECURSIVE Despawned(_)
Despawned(meta) == IF meta = <<>> THEN 0 ELSE (Head(meta) - 1) + Despawned(Tail(meta))

\* Spawns and despawns a world has gone through: every live entity is one
\* spawn, every despawned one a spawn and a despawn.
Mutations(world) == Cardinality(DOMAIN world.entities) + 2 * Despawned(world.meta)

\* Spawns and despawns a system adds when run on `world`.
SystemMutations(world, system) ==
    CASE system.name = "setup_data" -> 2
      [] system.name = "spawn" -> 1
      [] system.name = "despawn" ->
            IF system.entity \in DOMAIN world.entities THEN 1 ELSE 0
      [] OTHER -> 0

\* test::setup_data: spawns a = {42} and b = {21, SomeRef(Static(a))},
\* returns Static(b).
setup_data(world) ==
    LET a == NextId(world)
        w1 == Spawn(world, << <<"SomeCompoennt", SomeCompoennt(42)>> >>)
        b == NextId(w1)
        w2 == Spawn(w1, << <<"SomeCompoennt", SomeCompoennt(21)>>,
                           <<"SomeRef", SomeRef(Static(a))>> >>)
    IN [world |-> w2, out |-> Static(b)]

\* World::run_system_once(system): the world the system leaves and its Out.
RunSystem(world, system) ==
    CASE system.name = "setup_data" -> setup_data(world)
      [] system.name = "spawn" ->
            [world |-> Spawn(world, system.bundle), out |-> Static(NextId(world))]
      [] system.name = "despawn" ->
            [world |-> Despawn(world, system.entity),
             out |-> system.entity \in DOMAIN world.entities]
      [] system.name = "remove_registry" ->
            [world |-> [world EXCEPT !.registry = None], out |-> world.registry]

\* DataWorlds::modify_static_data(system)
modify_static_data(self, system) ==
    LET r == RunSystem(self.static_world, system)
    IN [self |-> [self EXCEPT !.static_world = r.world], ret |-> r.out]

\* Variant of reload_dynamic_data that spawns the scene into the old world.
reload_merging(self, dynamic_scene) ==
    IF ~IsSome(self.dynamic_world.registry)
    THEN [self |-> self, ret |-> [kind |-> "Panic"]]
    ELSE [self |-> [self EXCEPT !.dynamic_world =
                        Spawn(self.dynamic_world, SceneBundle(dynamic_scene))],
          ret |-> [kind |-> "Unit"]]

\* Variant of reload_dynamic_data that takes the registry out of the old
\* world and does not insert it into the new one.
reload_drops_registry(self, dynamic_scene) ==
    IF ~IsSome(self.dynamic_world.registry)
    THEN [self |-> self, ret |-> [kind |-> "Panic"]]
    ELSE [self |-> [self EXCEPT !.dynamic_world =
                        Spawn(WorldNew, SceneBundle(dynamic_scene))],
          ret |-> [kind |-> "Unit"]]

\* DataWorlds::reload_dynamic_data(dynamic_scene)
reload_dynamic_data(self, dynamic_scene) ==
    IF ~IsSome(self.dynamic_world.registry)
    THEN [self |-> self, ret |-> [kind |-> "Panic"]]   \* .expect(...) fails
    ELSE LET dw0 == InsertRegistry(WorldNew, Unwrap(self.dynamic_world.registry))
             dw1 == Spawn(dw0, SceneBundle(dynamic_scene))
         IN [self |-> [self EXCEPT !.dynamic_world = dw1], ret |-> [kind |-> "Unit"]]

\* DataWorlds::serialize_static_ron / serialize_dynamic_ron: &self; the
\* world's registry resource is required, the text is the codec's.
serialize_ron(world) ==
    IF ~IsSome(world.registry) THEN [kind |-> "Panic"] ELSE [kind |-> "Ron"]

serialize_static_ron(self) == [self |-> self, ret |-> serialize_ron(self.static_world)]

serialize_dynamic_ron(self) == [self |-> self, ret |-> serialize_ron(self.dynamic_world)]

\* Variant of get with the two worlds exchanged.
get_swapped(self, ptr) ==
    [self |-> self,
     ret |-> CASE ptr.tag = "Static" ->
                    IF IsSome(GetEntity(self.dynamic_world, ptr.entity))
                    THEN [kind |-> "Some", tier |-> "Dynamic", entity |-> ptr.entity]
                    ELSE [kind |-> "None"]
               [] ptr.tag = "Dynamic" ->
                    IF IsSome(GetEntity(self.static_world, ptr.entity))
                    THEN [kind |-> "Some", tier |-> "Static", entity |-> ptr.entity]
                    ELSE [kind |-> "None"]
               [] ptr.tag = "Null" -> [kind |-> "None"]]

\* Variant of get that clones a static entity into the dynamic world on read.
get_promoting(self, ptr) ==
    IF ptr.tag = "Static" /\ IsSome(GetEntity(self.static_world, ptr.entity))
    THEN [self |-> [self EXCEPT !.dynamic_world =
                        [Spawn(self.dynamic_world, <<>>) EXCEPT
                            !.entities[NextId(self.dynamic_world)]
                                = self.static_world.entities[ptr.entity]]],
          ret |-> [kind |-> "Some", tier |-> "Static", entity |-> ptr.entity]]
    ELSE IF ptr.tag = "Dynamic" /\ IsSome(GetEntity(self.dynamic_world, ptr.entity))
    THEN [self |-> self,
          ret |-> [kind |-> "Some", tier |-> "Dynamic", entity |-> ptr.entity]]
    ELSE [self |-> self, ret |-> [kind |-> "None"]]

\* DataWorlds::get(ptr) -> Option<EntityRef>
get(self, ptr) ==
    [self |-> self,
     ret |-> CASE ptr.tag = "Static" ->
                    IF IsSome(GetEntity(self.static_world, ptr.entity))
                    THEN [kind |-> "Some", tier |-> "Static", entity |-> ptr.entity]
                    ELSE [kind |-> "None"]
               [] ptr.tag = "Dynamic" ->
                    IF IsSome(GetEntity(self.dynamic_world, ptr.entity))
                    THEN [kind |-> "Some", tier |-> "Dynamic", entity |-> ptr.entity]
                    ELSE [kind |-> "None"]
               [] ptr.tag = "Null" -> [kind |-> "None"]]

\* Variant of entity that looks a Dynamic reference up in the static world.
entity_wrong_tier(self, ptr) ==
    [self |-> self,
     ret |-> CASE ptr.tag \in {"Static", "Dynamic"} ->
                    IF IsSome(GetEntity(self.static_world, ptr.entity))
                    THEN [kind |-> "Some", tier |-> "Static", entity |-> ptr.entity]
                    ELSE [kind |-> "Panic"]
               [] ptr.tag = "Null" -> [kind |-> "Panic"]]

\* Variant of entity that answers a dead id as get does, without a panic.
entity_lenient(self, ptr) ==
    [self |-> self,
     ret |-> CASE ptr.tag = "Static" ->
                    IF IsSome(GetEntity(self.static_world, ptr.entity))
                    THEN [kind |-> "Some", tier |-> "Static", entity |-> ptr.entity]
                    ELSE [kind |-> "None"]
               [] ptr.tag = "Dynamic" ->
                    IF IsSome(GetEntity(self.dynamic_world, ptr.entity))
                    THEN [kind |-> "Some", tier |-> "Dynamic", entity |-> ptr.entity]
                    ELSE [kind |-> "None"]
               [] ptr.tag = "Null" -> [kind |-> "Panic"]]

\* DataWorlds::entity(ptr) -> EntityRef; World::entity panics on a dead id.
entity(self, ptr) ==
    [self |-> self,
     ret |-> CASE ptr.tag = "Static" ->
                    IF IsSome(GetEntity(self.static_world, ptr.entity))
                    THEN [kind |-> "Some", tier |-> "Static", entity |-> ptr.entity]
                    ELSE [kind |-> "Panic"]
               [] ptr.tag = "Dynamic" ->
                    IF IsSome(GetEntity(self.dynamic_world, ptr.entity))
                    THEN [kind |-> "Some", tier |-> "Dynamic", entity |-> ptr.entity]
                    ELSE [kind |-> "Panic"]
               [] ptr.tag = "Null" -> [kind |-> "Panic"]]

\* Variant of the copy loop that skips a component the registry cannot copy.
RECURSIVE CopyLoopLenient(_, _, _, _, _, _)
CopyLoopLenient(sw, dw, registry, source, target, todo) ==
    IF todo = <<>> THEN [dynamic_world |-> dw, panic |-> FALSE]
    ELSE LET t == Head(todo)
         IN IF t \notin DOMAIN registry \/ ~registry[t]
            THEN CopyLoopLenient(sw, dw, registry, source, target, Tail(todo))
            ELSE CopyLoopLenient(sw, ReflectCopy(sw, dw, source, target, t),
                                 registry, source, target, Tail(todo))

\* The copy loop of transfer: one registry lookup and one copy per attached
\* component type; a failed .expect(...) ends it with a panic.
RECURSIVE CopyLoop(_, _, _, _, _, _)
CopyLoop(sw, dw, registry, source, target, todo) ==
    IF todo = <<>> THEN [dynamic_world |-> dw, panic |-> FALSE]
    ELSE LET t == Head(todo)
         IN IF t \notin DOMAIN registry \/ ~registry[t]
            THEN [dynamic_world |-> dw, panic |-> TRUE]
            ELSE CopyLoop(sw, ReflectCopy(sw, dw, source, target, t),
                          registry, source, target, Tail(todo))

\* The body of transfer with four switches, each a slip the variants below
\* turn on: drop the first attached component, despawn the source (a move
\* instead of a copy), spawn the target before the source is looked up,
\* hand back an existing entity of equal content instead of a new one.
TransferVariant(self, e, drop_first, move, spawn_first, memo) ==
    LET sw == self.static_world
        dw == self.dynamic_world
        same == IF IsSome(GetEntity(sw, e))
                THEN {x \in DOMAIN dw.entities : dw.entities[x] = sw.entities[e]}
                ELSE {}
    IN IF ~IsSome(GetEntity(sw, e))
       THEN [self |-> IF spawn_first
                      THEN [self EXCEPT !.dynamic_world = Spawn(dw, <<>>)] ELSE self,
             ret |-> None, panic |-> FALSE]
       ELSE IF memo /\ same # {}
       THEN [self |-> self, ret |-> Some(CHOOSE x \in same : TRUE), panic |-> FALSE]
       ELSE LET target == NextId(dw)
                todo == ArchetypeComponents(sw, e)
                loop == CopyLoop(sw, Spawn(dw, <<>>), Unwrap(sw.registry), e, target,
                                 IF drop_first /\ todo # <<>> THEN Tail(todo) ELSE todo)
                sw1 == IF move THEN Despawn(sw, e) ELSE sw
            IN [self |-> DataWorlds(sw1, loop.dynamic_world),
                ret |-> IF loop.panic THEN None ELSE Some(target),
                panic |-> loop.panic]

transfer_drops_component(self, e) == TransferVariant(self, e, TRUE, FALSE, FALSE, FALSE)

transfer_moves_source(self, e) == TransferVariant(self, e, FALSE, TRUE, FALSE, FALSE)

transfer_spawns_first(self, e) == TransferVariant(self, e, FALSE, FALSE, TRUE, FALSE)

transfer_memoized(self, e) == TransferVariant(self, e, FALSE, FALSE, FALSE, TRUE)

\* Variant of transfer that also promotes the entity a copied SomeRef names
\* and points the copy's SomeRef at that second copy.
transfer_transitive(self, e) ==
    LET one == TransferVariant(self, e, FALSE, FALSE, FALSE, FALSE)
    IN IF ~IsSome(one.ret) THEN one
       ELSE LET copy == one.self.dynamic_world.entities[Unwrap(one.ret)]
            IN IF "SomeRef" \in DOMAIN copy /\ copy["SomeRef"].entity.tag = "Static"
               THEN LET two == TransferVariant(one.self, copy["SomeRef"].entity.entity,
                                               FALSE, FALSE, FALSE, FALSE)
                    IN IF ~IsSome(two.ret) THEN one
                       ELSE [self |-> [two.self EXCEPT
                                !.dynamic_world.entities[Unwrap(one.ret)]["SomeRef"].entity
                                    = Dynamic(Unwrap(two.ret))],
                             ret |-> one.ret, panic |-> FALSE]
               ELSE one

\* DataWorlds::transfer(entity) -> Option<Entity>
transfer(self, e) ==
    IF ~IsSome(GetEntity(self.static_world, e))
    THEN [self |-> self, ret |-> None, panic |-> FALSE]
    ELSE LET target == NextId(self.dynamic_world)
             dw1 == Spawn(self.dynamic_world, <<>>)
         IN IF ~IsSome(self.static_world.registry)
            THEN [self |-> [self EXCEPT !.dynamic_world = dw1],
                  ret |-> None, panic |-> TRUE]
            ELSE LET loop == CopyLoop(self.static_world, dw1,
                                      Unwrap(self.static_world.registry), e, target,
                                      ArchetypeComponents(self.static_world, e))
                 IN [self |-> [self EXCEPT !.dynamic_world = loop.dynamic_world],
                     ret |-> IF loop.panic THEN None ELSE Some(target),
                     panic |-> loop.panic]

\* The Static and Dynamic arms as get_mut and entity_mut both spell them, for
\* the variants of the two below.
NonNullArms(self, ptr) ==
    IF ptr.tag = "Static"
    THEN LET t == transfer(self, ptr.entity)
         IN IF t.panic THEN [self |-> t.self, ret |-> [kind |-> "Panic"]]
            ELSE IF ~IsSome(t.ret) THEN [self |-> t.self, ret |-> [kind |-> "Missing"]]
            ELSE [self |-> t.self,
                  ret |-> [kind |-> "Moved", entity |-> Unwrap(t.ret),
                           ref |-> Dynamic(Unwrap(t.ret))]]
    ELSE IF ~IsSome(GetEntity(self.dynamic_world, ptr.entity))
         THEN [self |-> self, ret |-> [kind |-> "Missing"]]
         ELSE [self |-> self, ret |-> [kind |-> "Found", entity |-> ptr.entity]]

\* get_mut with the Null arm of entity_mut.
get_mut_null_panics(self, ptr) ==
    IF ptr.tag = "Null" THEN [self |-> self, ret |-> [kind |-> "Panic"]]
    ELSE NonNullArms(self, ptr)

\* entity_mut with the Null arm of get_mut.
entity_mut_null_missing(self, ptr) ==
    IF ptr.tag = "Null" THEN [self |-> self, ret |-> [kind |-> "Missing"]]
    ELSE NonNullArms(self, ptr)

\* entity_mut that panics on a dead Dynamic id, as World::entity_mut would.
entity_mut_dead_panics(self, ptr) ==
    IF ptr.tag = "Null" THEN [self |-> self, ret |-> [kind |-> "Panic"]]
    ELSE IF ptr.tag = "Dynamic" /\ ~IsSome(GetEntity(self.dynamic_world, ptr.entity))
    THEN [self |-> self, ret |-> [kind |-> "Panic"]]
    ELSE NonNullArms(self, ptr)

\* get_mut that promotes the static entity of the same raw id when a Dynamic
\* id is dead.
get_mut_falls_back(self, ptr) ==
    IF ptr.tag = "Null" THEN [self |-> self, ret |-> [kind |-> "Missing"]]
    ELSE IF /\ ptr.tag = "Dynamic"
            /\ ~IsSome(GetEntity(self.dynamic_world, ptr.entity))
            /\ IsSome(GetEntity(self.static_world, ptr.entity))
    THEN NonNullArms(self, Static(ptr.entity))
    ELSE NonNullArms(self, ptr)

\* get_mut that runs the transfer a second time on the way out.
get_mut_promotes_twice(self, ptr) ==
    IF ptr.tag = "Null" THEN [self |-> self, ret |-> [kind |-> "Missing"]]
    ELSE LET first == NonNullArms(self, ptr)
         IN IF first.ret.kind = "Moved" THEN NonNullArms(first.self, ptr) ELSE first

\* DataWorlds::get_mut(ptr) -> DataMut
get_mut(self, ptr) ==
    CASE ptr.tag = "Static" ->
            LET t == transfer(self, ptr.entity)
            IN IF t.panic THEN [self |-> t.self, ret |-> [kind |-> "Panic"]]
               ELSE IF ~IsSome(t.ret) THEN [self |-> t.self, ret |-> [kind |-> "Missing"]]
               ELSE IF ~IsSome(GetEntity(t.self.dynamic_world, Unwrap(t.ret)))
                    THEN [self |-> t.self, ret |-> [kind |-> "Missing"]]
               ELSE [self |-> t.self,
                     ret |-> [kind |-> "Moved", entity |-> Unwrap(t.ret),
                              ref |-> Dynamic(Unwrap(t.ret))]]
      [] ptr.tag = "Dynamic" ->
            IF ~IsSome(GetEntity(self.dynamic_world, ptr.entity))
            THEN [self |-> self, ret |-> [kind |-> "Missing"]]
            ELSE [self |-> self, ret |-> [kind |-> "Found", entity |-> ptr.entity]]
      [] ptr.tag = "Null" -> [self |-> self, ret |-> [kind |-> "Missing"]]

\* DataWorlds::entity_mut(ptr) -> DataMut
entity_mut(self, ptr) ==
    CASE ptr.tag = "Static" ->
            LET t == transfer(self, ptr.entity)
            IN IF t.panic THEN [self |-> t.self, ret |-> [kind |-> "Panic"]]
               ELSE IF ~IsSome(t.ret) THEN [self |-> t.self, ret |-> [kind |-> "Missing"]]
               ELSE IF ~IsSome(GetEntity(t.self.dynamic_world, Unwrap(t.ret)))
                    THEN [self |-> t.self, ret |-> [kind |-> "Missing"]]
               ELSE [self |-> t.self,
                     ret |-> [kind |-> "Moved", entity |-> Unwrap(t.ret),
                              ref |-> Dynamic(Unwrap(t.ret))]]
      [] ptr.tag = "Dynamic" ->
            IF ~IsSome(GetEntity(self.dynamic_world, ptr.entity))
            THEN [self |-> self, ret |-> [kind |-> "Missing"]]
            ELSE [self |-> self, ret |-> [kind |-> "Found", entity |-> ptr.entity]]
      [] ptr.tag = "Null" -> [self |-> self, ret |-> [kind |-> "Panic"]]

\* What a view returned by get / entity shows: the component map of its
\* entity in its tier (EntityRef::get::<T>() reads one entry of it).
View(self, ret) ==
    IF ret.tier = "Static" THEN self.static_world.entities[ret.entity]
    ELSE self.dynamic_world.entities[ret.entity]

\* Variant of write_data whose view also reaches the static entity of the
\* same raw id.
write_data_both_tiers(self, e, value) ==
    LET d == [self EXCEPT !.dynamic_world.entities[e]["SomeCompoennt"].data = value]
    IN IF e \in DOMAIN self.static_world.entities
          /\ "SomeCompoennt" \in DOMAIN self.static_world.entities[e]
       THEN [d EXCEPT !.static_world.entities[e]["SomeCompoennt"].data = value]
       ELSE d

\* A write through the EntityWorldMut of Found / Moved:
\* view.get_mut::<SomeCompoennt>().unwrap().data = value (the test's write).
write_data(self, e, value) ==
    [self EXCEPT !.dynamic_world.entities[e]["SomeCompoennt"].data = value]

\* ------------------------------------------------------------------------
\* The state machine.  `call` is the last call made on the store and
\* `result` what it returned; a Found / Moved result
\* is the caller's live mutable view until the next call.

VARIABLES static_world, dynamic_world, call, result

vars == <<static_world, dynamic_world, call, result>>

Self == DataWorlds(static_world, dynamic_world)

OptScenes == {None} \cup {Some(s) : s \in Scenes}

Count(world) == Cardinality(DOMAIN world.entities)

Init ==
    /\ \E ss \in OptScenes, ds \in OptScenes :
          LET d == from_scenes(FullRegistry, ss, ds)
          IN /\ static_world = d.static_world
             /\ dynamic_world = d.dynamic_world
    /\ call = [op |-> "from_scenes"]
    /\ result = [kind |-> "Unit"]

\* The store after a call that returned r = [self, ret].
Returns(r, c) ==
    /\ static_world' = r.self.static_world
    /\ dynamic_world' = r.self.dynamic_world
    /\ call' = c
    /\ result' = r.ret

\* modify_static_data(system), in any state; the model lets the static
\* world go through MaxStatic spawns and despawns.
ModifyStaticData ==
    \E system \in SetupSystems :
        /\ Mutations(static_world) + SystemMutations(static_world, system) <= MaxStatic
        /\ LET r == modify_static_data(Self, system)
           IN Returns([self |-> r.self, ret |-> [kind |-> "Out", out |-> r.ret]],
                      [op |-> "modify_static_data", system |-> system])

ReloadDynamicData ==
    \E scene \in Scenes :
        /\ Returns(reload_dynamic_data(Self, scene),
                   [op |-> "reload_dynamic_data", scene |-> scene])

SerializeStaticRon ==
    /\ Returns(serialize_static_ron(Self), [op |-> "serialize_static_ron"])

SerializeDynamicRon ==
    /\ Returns(serialize_dynamic_ron(Self), [op |-> "serialize_dynamic_ron"])

Get ==
    \E ptr \in DataRef :
        /\ Returns(get(Self, ptr), [op |-> "get", ptr |-> ptr])

Entity ==
    \E ptr \in DataRef :
        /\ Returns(entity(Self, ptr), [op |-> "entity", ptr |-> ptr])

\* A promotion spawns into the dynamic world: the model lets it happen while
\* the dynamic world holds fewer than MaxDynamic entities.
RoomFor(ptr) ==
    IF ptr.tag = "Static" /\ IsSome(GetEntity(static_world, ptr.entity))
    THEN Count(dynamic_world) < MaxDynamic
    ELSE TRUE

GetMut ==
    \E ptr \in DataRef :
        /\ RoomFor(ptr)
        /\ Returns(get_mut(Self, ptr), [op |-> "get_mut", ptr |-> ptr])

EntityMut ==
    \E ptr \in DataRef :
        /\ RoomFor(ptr)
        /\ Returns(entity_mut(Self, ptr), [op |-> "entity_mut", ptr |-> ptr])

\* The caller writes through the view it holds.
Write ==
    \E value \in WriteData :
        /\ result.kind \in {"Found", "Moved"}
        /\ "SomeCompoennt" \in DOMAIN dynamic_world.entities[result.entity]
        /\ LET d == write_data(Self, result.entity, value)
           IN /\ static_world' = d.static_world
              /\ dynamic_world' = d.dynamic_world
        /\ call' = [op |-> "write", entity |-> result.entity, value |-> value]
        /\ UNCHANGED result

Next ==
    \/ ModifyStaticData
    \/ ReloadDynamicData
    \/ SerializeStaticRon
    \/ SerializeDynamicRon
    \/ Get
    \/ Entity
    \/ GetMut
    \/ EntityMut
    \/ Write

Spec == Init /\ [][Next]_vars

\* ------------------------------------------------------------------------
\* A store built with a registry that does not cover every stored component
\* (from_scenes asks for one that does, and does not check it):
\* SomeCompoennt never registered, or SomeRef registered without its
\* ReflectComponent data.  A system may also take the registry out of the
\* static world afterwards.
MisRegistries ==
    { [t \in ComponentTypes \ {"SomeCompoennt"} |-> TRUE],
      [FullRegistry EXCEPT !["SomeRef"] = FALSE] }

InitMisregistered ==
    /\ \E reg \in MisRegistries, ss \in OptScenes, ds \in OptScenes :
          LET d == from_scenes(reg, ss, ds)
          IN /\ static_world = d.static_world
             /\ dynamic_world = d.dynamic_world
    /\ call = [op |-> "from_scenes"]
    /\ result = [kind |-> "Unit"]

\* modify_static_data with a system that removes the static world's registry.
RemoveRegistry ==
    \E system \in RegistrySystems :
        LET r == modify_static_data(Self, system)
        IN Returns([self |-> r.self, ret |-> [kind |-> "Out", out |-> r.ret]],
                   [op |-> "modify_static_data", system |-> system])

NextMisregistered ==
    \/ Next
    \/ RemoveRegistry

SpecMisregistered == InitMisregistered /\ [][NextMisregistered]_vars

\* ------------------------------------------------------------------------
\* Properties.

Alive(world) == DOMAIN world.entities

NonNull == DataRef \ {Null}

\* The calls a host makes after setup, and the write through a view.
RuntimeOps == {"get", "entity", "get_mut", "entity_mut", "reload_dynamic_data",
               "serialize_static_ron", "serialize_dynamic_ron", "write"}

\* C1: in every reachable state, get_mut(Static(id)) for an id alive in the
\* static world returns Moved(view, Dynamic(new_id)) where new_id was not
\* alive in the dynamic world before the call and is alive after it, and the
\* new entity's component map (types and values) equals the source's.
C1_PromotionCopiesSource ==
    \A id \in Alive(static_world) :
        LET r == get_mut(Self, Static(id))
        IN /\ r.ret.kind = "Moved"
           /\ r.ret.ref = Dynamic(r.ret.entity)
           /\ r.ret.entity \notin Alive(dynamic_world)
           /\ r.ret.entity \in Alive(r.self.dynamic_world)
           /\ DOMAIN r.self.dynamic_world.entities[r.ret.entity]
                = DOMAIN static_world.entities[id]
           /\ r.self.dynamic_world.entities[r.ret.entity] = static_world.entities[id]

\* C1 witness: get_mut promoted a two-component entity (b of setup_data).
C1_Witness ==
    /\ call.op = "get_mut" /\ call.ptr.tag = "Static"
    /\ result.kind = "Moved"
    /\ DOMAIN dynamic_world.entities[result.entity] = {"SomeCompoennt", "SomeRef"}
    /\ dynamic_world.entities[result.entity] = static_world.entities[call.ptr.entity]

\* C2: no runtime call and no write through a view changes the static
\* world's entities: ids, attached component types and values stay as setup
\* left them.
C2_StaticTierFrozen ==
    [][call'.op \in RuntimeOps => static_world'.entities = static_world.entities]_vars

\* C2 witness: a and b of setup_data are intact after b was promoted and the
\* copy was written.
C2_Witness ==
    /\ call.op = "write" /\ result.kind \in {"Found", "Moved"}
    /\ \E a, b \in Alive(static_world) :
          /\ static_world.entities[a]["SomeCompoennt"].data = 42
          /\ "SomeRef" \in DOMAIN static_world.entities[b]
          /\ static_world.entities[b]["SomeCompoennt"].data = 21
          /\ static_world.entities[b]["SomeRef"].entity = Static(a)
    /\ dynamic_world.entities[result.entity]["SomeCompoennt"].data \in WriteData
    /\ "SomeRef" \in DOMAIN dynamic_world.entities[result.entity]

\* C3: when entity_mut(Static(b)) returned Moved(view, r) and the caller
\* writes a value through view, then entity(r) and get(r) show the written
\* value, and entity(Static(b)) shows what it showed before the write.
C3_WriteSeenThroughMovedRef ==
    [][(/\ call.op = "entity_mut" /\ call.ptr.tag = "Static"
        /\ result.kind = "Moved"
        /\ call'.op = "write")
       => LET after == entity(Self', result.ref).ret
              before == entity(Self, call.ptr).ret
              still == entity(Self', call.ptr).ret
          IN /\ after.kind = "Some"
             /\ after.tier = "Dynamic"
             /\ get(Self', result.ref).ret = after
             /\ View(Self', after)["SomeCompoennt"].data = call'.value
             /\ before.kind = "Some" /\ still.kind = "Some"
             /\ View(Self', still) = View(Self, before)]_vars

\* C3 witness: the copy of b holds the written value, b still holds 21.
C3_Witness ==
    /\ call.op = "write" /\ result.kind = "Moved"
    /\ dynamic_world.entities[result.entity]["SomeCompoennt"].data = 99
    /\ "SomeRef" \in DOMAIN dynamic_world.entities[result.entity]
    /\ \E b \in Alive(static_world) :
          /\ "SomeRef" \in DOMAIN static_world.entities[b]
          /\ static_world.entities[b]["SomeCompoennt"].data = 21

\* C4: in every reachable state, get_mut(Static(id)) and entity_mut(Static(id))
\* for an id not alive in the static world return Missing and leave both
\* worlds exactly as they were.
C4_AbsentSourceIsMissing ==
    \A id \in EntityIds \ Alive(static_world) :
        /\ get_mut(Self, Static(id)) = [self |-> Self, ret |-> [kind |-> "Missing"]]
        /\ entity_mut(Self, Static(id)) = [self |-> Self, ret |-> [kind |-> "Missing"]]

\* C4 witness: entity_mut was called with the id of a despawned static
\* entity while the dynamic world held entities, and returned Missing.
C4_Witness ==
    /\ call.op = "entity_mut" /\ call.ptr.tag = "Static"
    /\ call.ptr.entity \notin Alive(static_world)
    /\ call.ptr.entity.index < Len(static_world.meta)
    /\ call.ptr.entity.generation < static_world.meta[call.ptr.entity.index + 1]
    /\ result.kind = "Missing"
    /\ Alive(dynamic_world) # {}

\* C5: promotions are not memoized.  A get_mut(Static(id)) of a live id
\* yields Moved with an id that was not alive before, whatever copies of the
\* same source the dynamic world already holds; the new entity equals the
\* source as it is at that call and the entities already there keep their
\* ids and contents.  No call but reload_dynamic_data removes a dynamic
\* entity, and a write through a view changes the viewed entity only.
C5_PromotionsNotMemoized ==
    [][/\ (/\ call'.op = "get_mut" /\ call'.ptr.tag = "Static"
           /\ call'.ptr.entity \in Alive(static_world))
          => /\ result'.kind = "Moved"
             /\ result'.entity \notin Alive(dynamic_world)
             /\ result'.entity \in Alive(dynamic_world')
             /\ dynamic_world'.entities[result'.entity]
                  = static_world.entities[call'.ptr.entity]
             /\ \A e \in Alive(dynamic_world) :
                   /\ e \in Alive(dynamic_world')
                   /\ dynamic_world'.entities[e] = dynamic_world.entities[e]
       /\ call'.op \in RuntimeOps \ {"reload_dynamic_data"}
          => Alive(dynamic_world) \subseteq Alive(dynamic_world')
       /\ call'.op = "write"
          => \A e \in Alive(dynamic_world) \ {result.entity} :
                dynamic_world'.entities[e] = dynamic_world.entities[e]]_vars

\* C5 witness: a second promotion of b has just returned a fresh copy equal to
\* b while an earlier copy of b, since written to 99, is still alive.
C5_Witness ==
    /\ call.op = "get_mut" /\ call.ptr.tag = "Static" /\ result.kind = "Moved"
    /\ "SomeRef" \in DOMAIN static_world.entities[call.ptr.entity]
    /\ dynamic_world.entities[result.entity] = static_world.entities[call.ptr.entity]
    /\ \E e \in Alive(dynamic_world) \ {result.entity} :
          /\ DOMAIN dynamic_world.entities[e] = {"SomeCompoennt", "SomeRef"}
          /\ dynamic_world.entities[e]["SomeRef"]
               = static_world.entities[call.ptr.entity]["SomeRef"]
          /\ dynamic_world.entities[e]["SomeCompoennt"].data = 99

\* C6: reload_dynamic_data(S) leaves a dynamic world holding exactly what the
\* spawn of S into a fresh world yields (one entity carrying the scene
\* bundle) and nothing that was there before, and leaves the static world
\* as it was.
C6_ReloadReplaces ==
    [][call'.op = "reload_dynamic_data"
       => /\ result'.kind = "Unit"
          /\ dynamic_world'.entities = (EntityId(0, 1) :> ("DynamicSceneBundle" :> call'.scene))
          /\ dynamic_world'.components = <<"DynamicSceneBundle">>
          /\ dynamic_world'.registry = dynamic_world.registry
          /\ static_world' = static_world]_vars

\* C6 witness: a reload has run on a store whose static world is populated.
C6_Witness ==
    /\ call.op = "reload_dynamic_data" /\ result.kind = "Unit"
    /\ Alive(static_world) # {}
    /\ dynamic_world.entities = (EntityId(0, 1) :> ("DynamicSceneBundle" :> call.scene))

\* C7: in every reachable state get_mut(Null) returns Missing (no panic)
\* and leaves both worlds unchanged.
C7_GetMutNullIsMissing ==
    get_mut(Self, Null) = [self |-> Self, ret |-> [kind |-> "Missing"]]

\* C7 witness: get_mut(Null) was called on a populated store.
C7_Witness ==
    /\ call = [op |-> "get_mut", ptr |-> Null]
    /\ result.kind = "Missing"
    /\ Alive(static_world) # {} /\ Alive(dynamic_world) # {}

\* C8: in every reachable state entity_mut(Null) panics and the store it
\* leaves behind is the store it found: no entity was created.
C8_EntityMutNullPanics ==
    LET r == entity_mut(Self, Null)
    IN /\ r.ret.kind = "Panic"
       /\ Alive(r.self.dynamic_world) = Alive(dynamic_world)
       /\ r.self = Self

\* C8 witness: entity_mut(Null) was called on a populated store.
C8_Witness ==
    /\ call = [op |-> "entity_mut", ptr |-> Null]
    /\ result.kind = "Panic"
    /\ Alive(static_world) # {} /\ Alive(dynamic_world) # {}

\* C9: in every reachable state and for every non-Null reference,
\* entity_mut and get_mut return the same variant with the same view and
\* reference and leave the same two worlds.
C9_EntityMutEqualsGetMut ==
    \A r \in NonNull : entity_mut(Self, r) = get_mut(Self, r)

\* C9 witness: entity_mut has just promoted, in a state where the references
\* cover all three variants (Missing, Found, Moved).
C9_Witness ==
    /\ call.op = "entity_mut" /\ result.kind = "Moved"
    /\ \E r1, r2, r3 \in NonNull :
          /\ get_mut(Self, r1).ret.kind = "Missing"
          /\ get_mut(Self, r2).ret.kind = "Found"
          /\ get_mut(Self, r3).ret.kind = "Moved"

\* C10 (as claimed by the "# Panics" doc comment): entity_mut panics for a
\* non-Null reference whose entity is not alive in the tier it names.
C10_EntityMutPanicsOnDeadEntity ==
    \A r \in NonNull :
        (r.entity \notin Alive(IF r.tag = "Static" THEN static_world ELSE dynamic_world))
        => entity_mut(Self, r).ret.kind = "Panic"

\* C11: in every reachable state and for every raw id, get_mut(Dynamic(id))
\* returns Found(view of id) when id is alive in the dynamic world and Missing
\* otherwise, and leaves both worlds as they were (no promotion), also when
\* the same raw id is alive in the static world.
C11_GetMutDynamicNeverPromotes ==
    \A id \in EntityIds :
        get_mut(Self, Dynamic(id))
          = [self |-> Self,
             ret |-> IF id \in Alive(dynamic_world)
                     THEN [kind |-> "Found", entity |-> id]
                     ELSE [kind |-> "Missing"]]

\* C11 witness: get_mut(Dynamic(id)) answered Missing for an id that is dead
\* in the dynamic world and alive in the static world.
C11_Witness ==
    /\ call.op = "get_mut" /\ call.ptr.tag = "Dynamic"
    /\ result.kind = "Missing"
    /\ call.ptr.entity \in Alive(static_world)
    /\ call.ptr.entity \notin Alive(dynamic_world)

\* The world a reference's tag names.
Tier(self, ptr) == IF ptr.tag = "Static" THEN self.static_world ELSE self.dynamic_world

\* The references stored in SomeRef components of either world.
StoredLinks ==
    {static_world.entities[e]["SomeRef"].entity :
        e \in {x \in Alive(static_world) : "SomeRef" \in DOMAIN static_world.entities[x]}}
    \cup
    {dynamic_world.entities[e]["SomeRef"].entity :
        e \in {x \in Alive(dynamic_world) : "SomeRef" \in DOMAIN dynamic_world.entities[x]}}

\* C12: in every reachable state get never panics: it returns None for Null
\* and for an id dead in the tier of the tag, and otherwise Some(view) of
\* that id in that tier, with the store unchanged.  A reference read out of a
\* stored SomeRef resolves, while the entity it names is alive, to the entity
\* setup_data named (a, holding 42).
C12_GetResolvesInTaggedTier ==
    /\ \A r \in DataRef :
          get(Self, r).ret
            = IF r = Null \/ r.entity \notin Alive(Tier(Self, r))
              THEN [kind |-> "None"]
              ELSE [kind |-> "Some", tier |-> r.tag, entity |-> r.entity]
    /\ \A l \in StoredLinks :
          LET v == get(Self, l).ret
          IN l.entity \in Alive(Tier(Self, l))
             => /\ v.kind = "Some"
                /\ v.tier = "Static"
                /\ View(Self, v) = ("SomeCompoennt" :> SomeCompoennt(42))

\* C12 witness: get has just followed the link stored in b and shows a.
C12_Witness ==
    /\ call.op = "get" /\ result.kind = "Some"
    /\ \E b \in Alive(static_world) :
          /\ "SomeRef" \in DOMAIN static_world.entities[b]
          /\ call.ptr = static_world.entities[b]["SomeRef"].entity
          /\ b # result.entity
    /\ View(Self, result)["SomeCompoennt"].data = 42

\* C13: in every reachable state entity(r) panics when r is Null or names an
\* id dead in its tier, and otherwise returns the view get(r) returns.
C13_EntityPanicsOrEqualsGet ==
    \A r \in DataRef :
        IF r = Null \/ r.entity \notin Alive(Tier(Self, r))
        THEN entity(Self, r).ret.kind = "Panic"
        ELSE /\ entity(Self, r).ret.kind = "Some"
             /\ entity(Self, r).ret = get(Self, r).ret

\* C13 witness: entity panicked on a Dynamic id that is dead in the dynamic
\* world while the same raw id is alive in the static world.
C13_Witness ==
    /\ call.op = "entity" /\ call.ptr.tag = "Dynamic"
    /\ result.kind = "Panic"
    /\ call.ptr.entity \in Alive(static_world)

\* C14: in every reachable state and for every reference, get and entity
\* leave both worlds exactly as they were.
C14_ReadPathNeverPromotes ==
    \A r \in DataRef :
        /\ get(Self, r).self = Self
        /\ entity(Self, r).self = Self

\* C14 witness: a live Static reference was read and the dynamic world is
\* still empty.
C14_Witness ==
    /\ call.op = "get" /\ call.ptr.tag = "Static"
    /\ result.kind = "Some"
    /\ Alive(dynamic_world) = {}

\* C15: in every reachable state, promoting a static entity b that holds a
\* SomeRef leaves the copy with the same SomeRef (still a Static reference),
\* adds exactly the copy to the dynamic world and copies nothing else.
C15_PromotionNotTransitive ==
    \A b \in {x \in Alive(static_world) : "SomeRef" \in DOMAIN static_world.entities[x]} :
        LET r == get_mut(Self, Static(b))
            new == r.ret.entity
        IN /\ r.ret.kind = "Moved"
           /\ r.self.dynamic_world.entities[new]["SomeRef"]
                = static_world.entities[b]["SomeRef"]
           /\ r.self.dynamic_world.entities[new]["SomeRef"].entity.tag = "Static"
           /\ Alive(r.self.dynamic_world) = Alive(dynamic_world) \cup {new}
           /\ \A e \in Alive(dynamic_world) :
                 r.self.dynamic_world.entities[e] = dynamic_world.entities[e]

\* C15 witness: b was promoted into an empty dynamic world, which now holds
\* the copy alone, its SomeRef naming the live static entity a.
C15_Witness ==
    /\ call.op = "get_mut" /\ call.ptr.tag = "Static" /\ result.kind = "Moved"
    /\ Alive(dynamic_world) = {result.entity}
    /\ "SomeRef" \in DOMAIN dynamic_world.entities[result.entity]
    /\ dynamic_world.entities[result.entity]["SomeRef"].entity.tag = "Static"
    /\ dynamic_world.entities[result.entity]["SomeRef"].entity.entity \in Alive(static_world)

\* What get shows for Static(x), Null when it shows nothing.
ShownStatic(self, x) ==
    LET v == get(self, Static(x)).ret
    IN IF v.kind = "Some" THEN <<v.tier, View(self, v)>> ELSE <<>>

\* C16: in every reachable state, for every raw id x alive in both worlds,
\* get(Static(x)) is the view of x in the static world and get(Dynamic(x))
\* the view of x in the dynamic world; and for every dynamic entity x,
\* get_mut(Dynamic(x)) returns Found and a write through that view leaves
\* what get(Static(y)) shows unchanged for every y, y = x included.
C16_TagSelectsTier ==
    /\ \A x \in Alive(static_world) \cap Alive(dynamic_world) :
          /\ get(Self, Static(x)).ret
               = [kind |-> "Some", tier |-> "Static", entity |-> x]
          /\ get(Self, Dynamic(x)).ret
               = [kind |-> "Some", tier |-> "Dynamic", entity |-> x]
          /\ View(Self, get(Self, Static(x)).ret) = static_world.entities[x]
          /\ View(Self, get(Self, Dynamic(x)).ret) = dynamic_world.entities[x]
    /\ \A x \in Alive(dynamic_world) :
          LET found == get_mut(Self, Dynamic(x))
          IN /\ found.ret = [kind |-> "Found", entity |-> x]
             /\ "SomeCompoennt" \in DOMAIN dynamic_world.entities[x]
                => \A value \in WriteData, y \in EntityIds :
                      ShownStatic(write_data(found.self, found.ret.entity, value), y)
                        = ShownStatic(Self, y)

\* C16 witness: x is alive in both worlds with different contents after a
\* write through the Found view of x.
C16_Witness ==
    /\ call.op = "write" /\ result.kind = "Found"
    /\ result.entity \in Alive(static_world)
    /\ "SomeCompoennt" \in DOMAIN static_world.entities[result.entity]
    /\ static_world.entities[result.entity]["SomeCompoennt"].data # 99
    /\ dynamic_world.entities[result.entity]["SomeCompoennt"].data = 99

\* C19: in every reachable state and for every reference, get_mut and
\* entity_mut add exactly one entity to the dynamic world when the reference
\* is Static(id) with id alive in the static world and none otherwise, and
\* every entity already in the dynamic world keeps its id and component map.
C19_AtMostOneEntityPerCall ==
    \A r \in DataRef :
        \A out \in {get_mut(Self, r), entity_mut(Self, r)} :
            /\ Alive(dynamic_world) \subseteq Alive(out.self.dynamic_world)
            /\ Cardinality(Alive(out.self.dynamic_world) \ Alive(dynamic_world))
                 = IF r.tag = "Static" /\ r.entity \in Alive(static_world)
                   THEN 1 ELSE 0
            /\ \A e \in Alive(dynamic_world) :
                  out.self.dynamic_world.entities[e] = dynamic_world.entities[e]

\* C19 witness: entity_mut promoted next to an entity that was already there
\* (the scene's), which is unchanged.
C19_Witness ==
    /\ call.op = "entity_mut" /\ result.kind = "Moved"
    /\ Cardinality(Alive(dynamic_world)) = 2
    /\ \E e \in Alive(dynamic_world) \ {result.entity} :
          "DynamicSceneBundle" \in DOMAIN dynamic_world.entities[e]
    /\ "SomeCompoennt" \in DOMAIN dynamic_world.entities[result.entity]

\* C20: in every reachable state both worlds hold their type registry, so
\* reload_dynamic_data does not panic there; and in every state a reload has
\* just produced, a further reload does not panic either, the registry is
\* the one the store was built with, and a promotion still copies the
\* source's components.
C20_RegistriesStay ==
    /\ static_world.registry = Some(FullRegistry)
    /\ dynamic_world.registry = Some(FullRegistry)
    /\ \A s \in Scenes : reload_dynamic_data(Self, s).ret.kind = "Unit"
    /\ call.op = "reload_dynamic_data"
       => /\ result.kind = "Unit"
          /\ \A s \in Scenes :
                /\ reload_dynamic_data(Self, s).self.dynamic_world.registry
                     = Some(FullRegistry)
                /\ reload_dynamic_data(Self, s).self.static_world.registry
                     = Some(FullRegistry)
          /\ \A id \in Alive(static_world) :
                /\ get_mut(Self, Static(id)).ret.kind = "Moved"
                /\ get_mut(Self, Static(id)).self.dynamic_world.entities[EntityId(1, 1)]
                     = static_world.entities[id]

\* C20 witness: a reload has returned, both registries are in place and the
\* two-component entity b is there to be promoted.
C20_Witness ==
    /\ call.op = "reload_dynamic_data" /\ result.kind = "Unit"
    /\ dynamic_world.registry = Some(FullRegistry)
    /\ static_world.registry = Some(FullRegistry)
    /\ \E b \in Alive(static_world) :
          DOMAIN static_world.entities[b] = {"SomeCompoennt", "SomeRef"}

\* The component types of static entity id that the static world's registry
\* cannot copy: not registered, or registered without ReflectComponent, or
\* the registry itself is gone.
Uncopyable(id) ==
    {t \in DOMAIN static_world.entities[id] :
        \/ ~IsSome(static_world.registry)
        \/ t \notin DOMAIN Unwrap(static_world.registry)
        \/ ~Unwrap(static_world.registry)[t]}

\* C17: in every reachable state of a store built with an incomplete
\* registry, get_mut and entity_mut of Static(id) panic when id is alive and
\* holds a component the registry cannot copy: neither Missing nor Moved.
C17_UnregisteredComponentPanics ==
    \A id \in Alive(static_world) :
        Uncopyable(id) # {}
        => /\ get_mut(Self, Static(id)).ret.kind = "Panic"
           /\ entity_mut(Self, Static(id)).ret.kind = "Panic"

\* C17 witness: entity_mut panicked while promoting b, after SomeCompoennt
\* was copied and before SomeRef could be.
C17_Witness ==
    /\ call.op = "entity_mut" /\ call.ptr.tag = "Static"
    /\ result.kind = "Panic"
    /\ call.ptr.entity \in Alive(static_world)
    /\ Uncopyable(call.ptr.entity) = {"SomeRef"}
    /\ \E e \in Alive(dynamic_world) :
          DOMAIN dynamic_world.entities[e] = {"SomeCompoennt"}

====
